---- MODULE Spec2Model ----
(***************************************************************************)
(* PULP DSP library: the glue code of the 32-bit scalar dot product and    *)
(* the three parallel strided matrix kernels                               *)
(*   plp_mat_mult_trans_stride_i32p_xpulpv2                                *)
(*   plp_mat_mult_trans_cmplx_stride_i16p_xpulpv2                          *)
(*   plp_mat_sub_stride_i16p_xpulpv2                                       *)
(* Each kernel is run by nPE workers (core ids 0..nPE-1) on one shared     *)
(* instance structure; a worker takes one step per loop test or per        *)
(* output element, and the steps of different workers interleave freely.   *)
(***************************************************************************)
EXTENDS Integers, Sequences, FiniteSets, TLC

VARIABLES
    op,        \* the entry point under execution: "mult", "cmplx", "sub", "dot"
    a,         \* the instance structure handed to every worker (args)
    pSrcA,     \* first input buffer, index -> element
    pSrcB,     \* second input buffer, index -> element
    pDst,      \* output buffer (pDstC / pDst), index -> element
    wk,        \* core_id -> [pc, m, o, n]: the loop position of each worker
    rows,      \* core_id -> the rows whose loop body the worker has entered
    writers,   \* output index -> the core ids that stored to it, in order
    calls      \* the calls of plp_dot_prod_i32s made so far

vars == <<op, a, pSrcA, pSrcB, pDst, wk, rows, writers, calls>>

-----------------------------------------------------------------------------
(* Bounds of the model *)

MaxM == 2          \* rows M range over 0..MaxM
MaxN == 2          \* inner dimension N ranges over 0..MaxN
MaxO == 2          \* output columns O range over 0..MaxO
MaxBlock == 2      \* blockSize of a dot product ranges over 0..MaxBlock
MaxCalls == 2      \* number of dot product calls in one behaviour
MaxLog == 4        \* entries kept in each of the histories rows and writers

\* worker counts (spec section 8, partition invariance)
NPEs == {1, 2, 3, 4, 8}

\* input data patterns: 1 = small values, 2 = values at the ends of the range
DataSets == {1, 2}

\* buffer layouts: the paddings <<A, B, C>> added to the logical row lengths
\* to give the strides, the data pattern that fills the inputs, and the worker
\* counts the layout is run with (the packed layout with one and two workers,
\* the padded one with every worker count)
Layouts == { [pad |-> <<0, 0, 0>>, dat |-> 1, nPEs |-> {1, 2}],
             [pad |-> <<1, 2, 1>>, dat |-> 2, nPEs |-> NPEs] }

-----------------------------------------------------------------------------
(* Fixed-width integer arithmetic.  uint32_t / int32_t / int16_t values    *)
(* are kept as mathematical integers inside their range; the operators     *)
(* work on 16-bit limbs so that no intermediate value leaves the range of  *)
(* 32-bit integers TLC computes with.                                       *)

Min32 == -2147483647 - 1
Max32 == 2147483646 + 1
Min16 == -(2^15)
Max16 == 2^15 - 1

Hi(x) == (x \div 65536) % 65536      \* upper 16 bits of the 32-bit pattern
Lo(x) == x % 65536                   \* lower 16 bits of the 32-bit pattern

\* the int32_t whose bit pattern has upper half h and lower half l
FromLimbs(h, l) == (IF h >= 32768 THEN h - 65536 ELSE h) * 65536 + l

\* exact product of two 16-bit limbs as <<upper, lower>>
Mul16(x, y) ==
    LET q == x * (y \div 256)
        r == x * (y % 256)
        t == (q % 256) * 256 + r
    IN  << (q \div 256) + (t \div 65536), t % 65536 >>

\* int32_t addition, subtraction and multiplication.  Signed overflow is
\* undefined in C; the kernels are built for RV32, whose add, sub and mul
\* neither trap nor saturate, so the one outcome of the build is the low 32
\* bits of the exact result (the wraparound the library documents).
Add32(x, y) ==
    LET l == Lo(x) + Lo(y)
    IN  FromLimbs((Hi(x) + Hi(y) + (l \div 65536)) % 65536, l % 65536)

Sub32(x, y) ==
    LET l == Lo(x) - Lo(y)
    IN  FromLimbs((Hi(x) - Hi(y) + (l \div 65536)) % 65536, l % 65536)

Mul32(x, y) ==
    LET ll == Mul16(Lo(x), Lo(y))
        hl == Mul16(Hi(x), Lo(y))
        lh == Mul16(Lo(x), Hi(y))
    IN  FromLimbs((ll[1] + hl[2] + lh[2]) % 65536, ll[2])

\* conversion of an int to int16_t on a store (keeps the low 16 bits)
Int16(x) == IF x % 65536 >= 32768 THEN (x % 65536) - 65536 ELSE x % 65536

\* uint32_t values are kept as the int32_t with the same bit pattern (the
\* small non-negative ones are themselves); x < y compared as uint32_t
LtU32(x, y) == Hi(x) < Hi(y) \/ (Hi(x) = Hi(y) /\ Lo(x) < Lo(y))

-----------------------------------------------------------------------------
(* Buffers and instance structures *)

\* input elements of width w bits at buffer index i, for data pattern d
GenA(d, w, i) ==
    IF d = 1 THEN i + 1
    ELSE IF i % 2 = 0 THEN (IF w = 16 THEN Max16 ELSE Max32) - i
                      ELSE (IF w = 16 THEN Min16 ELSE Min32) + i

GenB(d, w, i) ==
    IF d = 1 THEN i + 3
    ELSE IF i % 2 = 0 THEN (IF w = 16 THEN Min16 ELSE Min32) + 2 * i
                      ELSE (IF w = 16 THEN Max16 ELSE Max32) - 2 * i

\* content of the output buffer before the call
PreCall(i) == -77 - i

\* plp_mat_mult_stride_instance_i32 / plp_mat_mult_cmplx_stride_instance_i16
MultInstance(M, N, O, pad, nPE) ==
    [M |-> M, N |-> N, O |-> O,
     strideA |-> N + pad[1], strideB |-> N + pad[2], strideC |-> O + pad[3],
     nPE |-> nPE]

\* plp_mat_sub_stride_instance_i16
SubInstance(M, N, pad, nPE) ==
    [M |-> M, N |-> N,
     strideA |-> N + pad[1], strideB |-> N + pad[2], strideY |-> N + pad[3],
     nPE |-> nPE]

-----------------------------------------------------------------------------
(* The row loop shared by the three kernels:                               *)
(*     for (m = core_id; m < M; m += nPE)                                  *)
(* (mult line 72, cmplx line 75, sub line 75).                             *)

\* slip: every worker starts at row 0
RowStart_zero(core_id) == 0

RowStart(core_id) == core_id

\* slip: m <= M
RowTest_inclusive(m, M) == ~LtU32(M, m)

RowTest(m, M) == LtU32(m, M)

\* slip: the increment taken twice
RowNext_double(m, nPE) == Add32(Add32(m, nPE), nPE)

\* slip: the increment left out
RowNext_hold(m, nPE) == m

RowNext(m, nPE) == Add32(m, nPE)

\* element indices  row * stride + column
IdxA(d, m, n) == m * d.strideA + n
IdxB(d, o, n) == o * d.strideB + n
\* slip: the row pitch of the output left out
IdxC_nopitch(d, m, o) == m + o

IdxC(d, m, o) == m * d.strideC + o
\* slip: the row pitch of the difference left out
IdxY_nopitch(d, m, n) == m + n

IdxY(d, m, n) == m * d.strideY + n

-----------------------------------------------------------------------------
(* plp_mat_mult_trans_stride_i32p_xpulpv2 *)

\* the inner loop over n: sum += valA * valB
RECURSIVE MultAcc(_, _, _, _, _, _, _)
MultAcc(d, A, B, m, o, n, sum) ==
    IF n < d.N
    THEN MultAcc(d, A, B, m, o, n + 1,
                 Add32(sum, Mul32(A[IdxA(d, m, n)], B[IdxB(d, o, n)])))
    ELSE sum

\* slip: the inner loop starts at n = 1
MultSum_from1(d, A, B, m, o) == MultAcc(d, A, B, m, o, 1, 0)

MultSum(d, A, B, m, o) == MultAcc(d, A, B, m, o, 0, 0)

\* the loop over o for row m, applied to the output buffer dst
RECURSIVE MultCols(_, _, _, _, _, _)
MultCols(d, A, B, dst, m, o) ==
    IF o < d.O
    THEN MultCols(d, A, B, [dst EXCEPT ![IdxC(d, m, o)] = MultSum(d, A, B, m, o)],
                  m, o + 1)
    ELSE dst

RECURSIVE MultRows(_, _, _, _, _)
MultRows(d, A, B, dst, m) ==
    IF RowTest(m, d.M)
    THEN MultRows(d, A, B, MultCols(d, A, B, dst, m, 0), RowNext(m, d.nPE))
    ELSE dst

\* one whole call of the kernel on core core_id
plp_mat_mult_trans_stride_i32p_xpulpv2(d, core_id, A, B, dst) ==
    MultRows(d, A, B, dst, RowStart(core_id))

-----------------------------------------------------------------------------
(* plp_mat_mult_trans_cmplx_stride_i16p_xpulpv2 *)

\* the two accumulations of one inner step
\* slip: + in place of - in the real part
CmplxRe_plus(a_re, a_im, b_re, b_im) == Add32(Mul32(a_re, b_re), Mul32(a_im, b_im))

CmplxRe(a_re, a_im, b_re, b_im) == Sub32(Mul32(a_re, b_re), Mul32(a_im, b_im))

\* slip: the imaginary part accumulated in 16 bits
CmplxIm_narrow(a_re, a_im, b_re, b_im) == Int16(Add32(Mul32(a_re, b_im), Mul32(a_im, b_re)))

CmplxIm(a_re, a_im, b_re, b_im) == Add32(Mul32(a_re, b_im), Mul32(a_im, b_re))

\* the inner loop over n; sum is <<sum_re, sum_im>>
RECURSIVE CmplxAcc(_, _, _, _, _, _, _)
CmplxAcc(d, A, B, m, o, n, sum) ==
    IF n < d.N
    THEN LET a_re == A[IdxA(d, m, n) * 2 + 0]
             a_im == A[IdxA(d, m, n) * 2 + 1]
             b_re == B[IdxB(d, o, n) * 2 + 0]
             b_im == B[IdxB(d, o, n) * 2 + 1]
         IN  CmplxAcc(d, A, B, m, o, n + 1,
                      << Add32(sum[1], CmplxRe(a_re, a_im, b_re, b_im)),
                         Add32(sum[2], CmplxIm(a_re, a_im, b_re, b_im)) >>)
    ELSE sum

CmplxSum(d, A, B, m, o) == CmplxAcc(d, A, B, m, o, 0, <<0, 0>>)

RECURSIVE CmplxCols(_, _, _, _, _, _)
CmplxCols(d, A, B, dst, m, o) ==
    IF o < d.O
    THEN LET sum == CmplxSum(d, A, B, m, o)
         IN  CmplxCols(d, A, B,
                       [dst EXCEPT ![IdxC(d, m, o) * 2 + 0] = sum[1],
                                   ![IdxC(d, m, o) * 2 + 1] = sum[2]],
                       m, o + 1)
    ELSE dst

RECURSIVE CmplxRows(_, _, _, _, _)
CmplxRows(d, A, B, dst, m) ==
    IF RowTest(m, d.M)
    THEN CmplxRows(d, A, B, CmplxCols(d, A, B, dst, m, 0), RowNext(m, d.nPE))
    ELSE dst

plp_mat_mult_trans_cmplx_stride_i16p_xpulpv2(d, core_id, A, B, dst) ==
    CmplxRows(d, A, B, dst, RowStart(core_id))

-----------------------------------------------------------------------------
(* plp_mat_sub_stride_i16p_xpulpv2 *)

\* slip: pSrcB addressed with the stride of pSrcA
SubElem_strideA(d, A, B, m, n) == Int16(A[IdxA(d, m, n)] - B[IdxA(d, m, n)])

\* the element stored at row m, column n
SubElem(d, A, B, m, n) == Int16(A[IdxA(d, m, n)] - B[IdxB(d, m, n)])

RECURSIVE SubCols(_, _, _, _, _, _)
SubCols(d, A, B, dst, m, n) ==
    IF n < d.N
    THEN SubCols(d, A, B, [dst EXCEPT ![IdxY(d, m, n)] = SubElem(d, A, B, m, n)],
                 m, n + 1)
    ELSE dst

RECURSIVE SubRows(_, _, _, _, _)
SubRows(d, A, B, dst, m) ==
    IF RowTest(m, d.M)
    THEN SubRows(d, A, B, SubCols(d, A, B, dst, m, 0), RowNext(m, d.nPE))
    ELSE dst

plp_mat_sub_stride_i16p_xpulpv2(d, core_id, A, B, dst) ==
    SubRows(d, A, B, dst, RowStart(core_id))

-----------------------------------------------------------------------------
(* plp_dot_prod_i32s: the glue code and the two kernels it forwards to *)

ARCHI_FC_CID == 32

\* slip: the test inverted
plp_dot_prod_i32s_inverted(cluster_id, A, B, blockSize) ==
    IF cluster_id # ARCHI_FC_CID THEN "rv32im" ELSE "xpulpv2"

\* slip: empty vectors handled by the baseline kernel
plp_dot_prod_i32s_bysize(cluster_id, A, B, blockSize) ==
    IF cluster_id = ARCHI_FC_CID \/ blockSize = 0 THEN "rv32im" ELSE "xpulpv2"

\* the kernel the glue code forwards to when called on cluster cluster_id
plp_dot_prod_i32s(cluster_id, A, B, blockSize) ==
    IF cluster_id = ARCHI_FC_CID THEN "rv32im" ELSE "xpulpv2"

\* sum = pSrcA[0]*pSrcB[0] + ... + pSrcA[blockSize-1]*pSrcB[blockSize-1]
RECURSIVE DotAcc(_, _, _, _, _)
DotAcc(A, B, blockSize, i, sum) ==
    IF i < blockSize
    THEN DotAcc(A, B, blockSize, i + 1, Add32(sum, Mul32(A[i], B[i])))
    ELSE sum

plp_dot_prod_i32s_rv32im(A, B, blockSize) == DotAcc(A, B, blockSize, 0, 0)

plp_dot_prod_i32s_xpulpv2(A, B, blockSize) == DotAcc(A, B, blockSize, 0, 0)

\* cluster ids a call can come from: the cluster (0), the fabric controller,
\* and ids that name neither
ClusterIds == {0, 1, 31, ARCHI_FC_CID}

-----------------------------------------------------------------------------
\* the cores of the cluster that run the kernel
Cores == DOMAIN wk

AllDone == \A c \in Cores : wk[c].pc = "done"

\* state of the workers right after the fork, each about to start its row loop
Forked(nPE) ==
    /\ wk = [c \in 0 .. nPE - 1 |->
                [pc |-> "row", m |-> 0, o |-> 0, n |-> 0]]
    /\ rows = [c \in 0 .. nPE - 1 |-> << >>]
    /\ calls = << >>

InitMult ==
    \E M \in 0 .. MaxM, N \in 0 .. MaxN, O \in 0 .. MaxO,
       lay \in Layouts : \E nPE \in lay.nPEs :
        LET d == MultInstance(M, N, O, lay.pad, nPE)
            dat == lay.dat
        IN
        /\ op = "mult"
        /\ a = d
        /\ pSrcA = [i \in 0 .. M * d.strideA - 1 |-> GenA(dat, 32, i)]
        /\ pSrcB = [i \in 0 .. O * d.strideB - 1 |-> GenB(dat, 32, i)]
        /\ pDst = [i \in 0 .. M * d.strideC - 1 |-> PreCall(i)]
        /\ writers = [i \in 0 .. M * d.strideC - 1 |-> << >>]
        /\ Forked(nPE)

InitCmplx ==
    \E M \in 0 .. MaxM, N \in 0 .. MaxN, O \in 0 .. MaxO,
       lay \in Layouts : \E nPE \in lay.nPEs :
        LET d == MultInstance(M, N, O, lay.pad, nPE)
            dat == lay.dat
        IN
        /\ op = "cmplx"
        /\ a = d
        /\ pSrcA = [i \in 0 .. 2 * M * d.strideA - 1 |-> GenA(dat, 16, i)]
        /\ pSrcB = [i \in 0 .. 2 * O * d.strideB - 1 |-> GenB(dat, 16, i)]
        /\ pDst = [i \in 0 .. 2 * M * d.strideC - 1 |-> PreCall(i)]
        /\ writers = [i \in 0 .. 2 * M * d.strideC - 1 |-> << >>]
        /\ Forked(nPE)

InitSub ==
    \E M \in 0 .. MaxM, N \in 0 .. MaxN,
       lay \in Layouts : \E nPE \in lay.nPEs :
        LET d == SubInstance(M, N, lay.pad, nPE)
            dat == lay.dat
        IN
        /\ op = "sub"
        /\ a = d
        /\ pSrcA = [i \in 0 .. M * d.strideA - 1 |-> GenA(dat, 16, i)]
        /\ pSrcB = [i \in 0 .. M * d.strideB - 1 |-> GenB(dat, 16, i)]
        /\ pDst = [i \in 0 .. M * d.strideY - 1 |-> PreCall(i)]
        /\ writers = [i \in 0 .. M * d.strideY - 1 |-> << >>]
        /\ Forked(nPE)

\* no kernel instance: the caller is about to use the dot product
InitDot ==
    /\ op = "dot"
    /\ a = << >>
    /\ pSrcA = << >>
    /\ pSrcB = << >>
    /\ pDst = << >>
    /\ writers = << >>
    /\ wk = << >>
    /\ rows = << >>
    /\ calls = << >>

Init == InitMult \/ InitCmplx \/ InitSub \/ InitDot

\* the logical row length of the output (the bound of the loop inside the
\* row loop) and its stride
RowLen == IF op = "sub" THEN a.N ELSE a.O
OutStride == IF op = "sub" THEN a.strideY ELSE a.strideC

\* a history with one more entry; entries past MaxLog are not recorded, so
\* that a worker that never leaves its loop runs through finitely many states
Log(h, x) == IF Len(h) < MaxLog THEN Append(h, x) ELSE h

\* a store of core c to output index i
Store(w, c, i) == [w EXCEPT ![i] = Log(@, c)]

\* the test m < M of the row loop for core c, with m the value just assigned
\* by m = core_id or by m += nPE: the body is entered (the loop over o, or
\* over n, starts at 0) or the worker returns
RowEnter(c, m) ==
    IF RowTest(m, a.M)
    THEN /\ wk' = [wk EXCEPT ![c] = [pc |-> "col", m |-> m, o |-> 0, n |-> 0]]
         /\ rows' = [rows EXCEPT ![c] = Log(@, m)]
    ELSE /\ wk' = [wk EXCEPT ![c] = [pc |-> "done", m |-> m, o |-> @.o, n |-> @.n]]
         /\ rows' = rows

\* the row loop started at m reaches its exit: some m, m + nPE, m + 2*nPE,
\* ... in uint32_t fails the test m < M before a value comes back
RECURSIVE LoopEnds(_, _)
LoopEnds(m, seen) ==
    IF ~RowTest(m, a.M) THEN TRUE
    ELSE IF m \in seen THEN FALSE
    ELSE LoopEnds(RowNext(m, a.nPE), seen \cup {m})

\* a row loop that stores nothing (rows of length 0) and never reaches its
\* exit has no side effect, and a build may take it to terminate (C11
\* 6.8.5p6): such a build tests core_id < M and the row length and returns,
\* where the other builds stay in the loop for ever.  Loops that store, and
\* loops that end, come out the same in every build.
RowElided(c) ==
    /\ RowTest(RowStart(c), a.M)
    /\ RowLen = 0
    /\ ~LoopEnds(RowStart(c), {})
    /\ wk' = [wk EXCEPT ![c] = [pc |-> "done", m |-> RowStart(c), o |-> @.o, n |-> @.n]]
    /\ rows' = rows

\* the start of the row loop: m = core_id and the first test
RowStep(c) ==
    /\ wk[c].pc = "row"
    /\ \/ RowEnter(c, RowStart(c))
       \/ RowElided(c)
    /\ UNCHANGED <<op, a, pSrcA, pSrcB, pDst, writers, calls>>

\* the end of the loop over o (or n): m += nPE and the next test
RowAdvance(c) == RowEnter(c, RowNext(wk[c].m, a.nPE))

\* mult, one pass of the loop over o: an output element is computed and stored
MultColStep(c) ==
    /\ op = "mult"
    /\ wk[c].pc = "col"
    /\ LET m == wk[c].m
           o == wk[c].o
       IN  IF o < a.O
           THEN /\ pDst' = [pDst EXCEPT ![IdxC(a, m, o)] = MultSum(a, pSrcA, pSrcB, m, o)]
                /\ writers' = Store(writers, c, IdxC(a, m, o))
                /\ wk' = [wk EXCEPT ![c].o = o + 1]
                /\ rows' = rows
           ELSE /\ RowAdvance(c)
                /\ UNCHANGED <<pDst, writers>>
    /\ UNCHANGED <<op, a, pSrcA, pSrcB, calls>>

\* cmplx, one pass of the loop over o up to the first of its two stores:
\* sum_re and sum_im are computed and sum_re is stored (line 87)
CmplxColStep(c) ==
    /\ op = "cmplx"
    /\ wk[c].pc = "col"
    /\ LET m == wk[c].m
           o == wk[c].o
           sum == CmplxSum(a, pSrcA, pSrcB, m, o)
       IN  IF o < a.O
           THEN /\ pDst' = [pDst EXCEPT ![IdxC(a, m, o) * 2 + 0] = sum[1]]
                /\ writers' = Store(writers, c, IdxC(a, m, o) * 2 + 0)
                /\ wk' = [wk EXCEPT ![c].pc = "im"]
                /\ rows' = rows
           ELSE /\ RowAdvance(c)
                /\ UNCHANGED <<pDst, writers>>
    /\ UNCHANGED <<op, a, pSrcA, pSrcB, calls>>

\* cmplx, the second store of the pass: sum_im is stored (line 88) and o++.
\* sum_im is a local computed before the first store; the inputs it was
\* computed from do not change, so CmplxSum gives its value here
CmplxImStep(c) ==
    /\ op = "cmplx"
    /\ wk[c].pc = "im"
    /\ LET m == wk[c].m
           o == wk[c].o
           sum == CmplxSum(a, pSrcA, pSrcB, m, o)
       IN  /\ pDst' = [pDst EXCEPT ![IdxC(a, m, o) * 2 + 1] = sum[2]]
           /\ writers' = Store(writers, c, IdxC(a, m, o) * 2 + 1)
           /\ wk' = [wk EXCEPT ![c].pc = "col", ![c].o = o + 1]
           /\ rows' = rows
    /\ UNCHANGED <<op, a, pSrcA, pSrcB, calls>>

\* sub, one pass of the loop over n: an output element is computed and stored
SubColStep(c) ==
    /\ op = "sub"
    /\ wk[c].pc = "col"
    /\ LET m == wk[c].m
           n == wk[c].n
       IN  IF n < a.N
           THEN /\ pDst' = [pDst EXCEPT ![IdxY(a, m, n)] = SubElem(a, pSrcA, pSrcB, m, n)]
                /\ writers' = Store(writers, c, IdxY(a, m, n))
                /\ wk' = [wk EXCEPT ![c].n = n + 1]
                /\ rows' = rows
           ELSE /\ RowAdvance(c)
                /\ UNCHANGED <<pDst, writers>>
    /\ UNCHANGED <<op, a, pSrcA, pSrcB, calls>>

\* a call of plp_dot_prod_i32s from cluster cid: the glue code picks the
\* kernel, the kernel runs and stores the sum to *pRes
DotCall ==
    /\ op = "dot"
    /\ Len(calls) < MaxCalls
    /\ \E cid \in ClusterIds, blockSize \in 0 .. MaxBlock, dat \in DataSets :
        LET A == [i \in 0 .. blockSize - 1 |-> GenA(dat, 32, i)]
            B == [i \in 0 .. blockSize - 1 |-> GenB(dat, 32, i)]
            kernel == plp_dot_prod_i32s(cid, A, B, blockSize)
            res == IF kernel = "rv32im" THEN plp_dot_prod_i32s_rv32im(A, B, blockSize)
                   ELSE IF kernel = "xpulpv2" THEN plp_dot_prod_i32s_xpulpv2(A, B, blockSize)
                   ELSE "none"
        IN  /\ pSrcA' = A
            /\ pSrcB' = B
            /\ pDst' = IF kernel \in {"rv32im", "xpulpv2"} THEN <<res>> ELSE pDst
            /\ calls' = Append(calls, [cid |-> cid, blockSize |-> blockSize, dat |-> dat,
                                       kernel |-> kernel, pRes |-> res])
    /\ UNCHANGED <<op, a, wk, rows, writers>>

Next ==
    \/ \E c \in Cores : RowStep(c)
    \/ \E c \in Cores : MultColStep(c)
    \/ \E c \in Cores : CmplxColStep(c)
    \/ \E c \in Cores : CmplxImStep(c)
    \/ \E c \in Cores : SubColStep(c)
    \/ DotCall

Spec == Init /\ [][Next]_vars

-----------------------------------------------------------------------------
(* Whole runs of a kernel, used to state the properties *)

Kernels == {"mult", "cmplx", "sub"}

\* one whole call of the kernel under execution on core core_id
RunKernel(d, core_id, dst) ==
    CASE op = "mult"  -> plp_mat_mult_trans_stride_i32p_xpulpv2(d, core_id, pSrcA, pSrcB, dst)
      [] op = "cmplx" -> plp_mat_mult_trans_cmplx_stride_i16p_xpulpv2(d, core_id, pSrcA, pSrcB, dst)
      [] op = "sub"   -> plp_mat_sub_stride_i16p_xpulpv2(d, core_id, pSrcA, pSrcB, dst)

\* the workers run to completion one after another, in the order given
RECURSIVE RunInOrder(_, _)
RunInOrder(order, dst) ==
    IF order = << >> THEN dst
    ELSE RunInOrder(Tail(order), RunKernel(a, Head(order), dst))

\* the output buffer as the caller handed it over
PreCallDst == [i \in DOMAIN pDst |-> PreCall(i)]

SeqSet(s) == {s[i] : i \in DOMAIN s}

\* right-to-left sum of a sequence of int32_t values, in int32_t
RECURSIVE Sum32(_)
Sum32(s) == IF s = << >> THEN 0 ELSE Add32(Head(s), Sum32(Tail(s)))

-----------------------------------------------------------------------------
(* C2 -- the result does not depend on nPE *)

\* C2: for fixed inputs, dimensions and strides the output buffer after all
\* nPE workers have finished equals the output of one worker (nPE = 1,
\* core_id = 0) running the same kernel, for every nPE in {1,2,3,4,8},
\* nPE > M included.
C2_IndependentOfnPE ==
    (op \in Kernels /\ AllDone) =>
        pDst = RunKernel([a EXCEPT !.nPE = 1], 0, PreCallDst)

\* eight workers have finished a matrix of two rows
C2_Witness ==
    /\ op = "cmplx" /\ AllDone
    /\ a.nPE = 8 /\ a.M = 2 /\ a.N = 2 /\ a.O = 2
    /\ pDst # PreCallDst

-----------------------------------------------------------------------------
(* C3 -- multiply-transpose equals the scalar reference *)

\* C3: after all workers of the i32 multiply-transpose kernel have finished,
\* pDstC[m*strideC + o] is the sum over n in [0, N) of
\* pSrcA[m*strideA + n] * pSrcB[o*strideB + n], taken in int32_t as the
\* scalar reference does, for every m in [0, M) and o in [0, O).
C3_MultTransReference ==
    (op = "mult" /\ AllDone) =>
        \A m \in 0 .. a.M - 1, o \in 0 .. a.O - 1 :
            pDst[m * a.strideC + o] =
                Sum32([k \in 1 .. a.N |->
                          Mul32(pSrcA[m * a.strideA + (k - 1)],
                                pSrcB[o * a.strideB + (k - 1)])])

\* a finished 2x2 product with two inner steps on padded buffers
C3_Witness ==
    /\ op = "mult" /\ AllDone
    /\ a.M = 2 /\ a.N = 2 /\ a.O = 2 /\ a.strideB = 4
    /\ \A i \in {0, 1, 3, 4} : Len(writers[i]) = 1

-----------------------------------------------------------------------------
(* C4 -- complex multiply-transpose *)

\* the interleaved pair stored at logical position e of buffer X
Re(X, e) == X[e * 2]
Im(X, e) == X[e * 2 + 1]

\* C4: after all workers of the complex kernel have finished, the pair at
\* pDstC[(m*strideC + o)*2], pDstC[(m*strideC + o)*2 + 1] is
\* sum_re = sum over n of (a_re*b_re - a_im*b_im) and
\* sum_im = sum over n of (a_re*b_im + a_im*b_re) (sums in int32_t), with a
\* the pair at A[m,n] and b the pair at B[o,n]; A = [(1,2)], B = [(3,4)],
\* N = 1 gives (-5, 10).
C4_ComplexReference ==
    (op = "cmplx" /\ AllDone) =>
        /\ \A m \in 0 .. a.M - 1, o \in 0 .. a.O - 1 :
              LET ea(k) == m * a.strideA + (k - 1)
                  eb(k) == o * a.strideB + (k - 1)
              IN  /\ Re(pDst, m * a.strideC + o) =
                        Sum32([k \in 1 .. a.N |->
                                  Re(pSrcA, ea(k)) * Re(pSrcB, eb(k))
                                    - Im(pSrcA, ea(k)) * Im(pSrcB, eb(k))])
                  /\ Im(pDst, m * a.strideC + o) =
                        Sum32([k \in 1 .. a.N |->
                                  Add32(Re(pSrcA, ea(k)) * Im(pSrcB, eb(k)),
                                        Im(pSrcA, ea(k)) * Re(pSrcB, eb(k)))])
        /\ (a.M = 1 /\ a.N = 1 /\ a.O = 1
              /\ Re(pSrcA, 0) = 1 /\ Im(pSrcA, 0) = 2
              /\ Re(pSrcB, 0) = 3 /\ Im(pSrcB, 0) = 4)
           => (Re(pDst, 0) = -5 /\ Im(pDst, 0) = 10)

\* the worked example has been computed
C4_Witness ==
    /\ op = "cmplx" /\ AllDone
    /\ a.M = 1 /\ a.N = 1 /\ a.O = 1
    /\ pSrcA = (0 :> 1 @@ 1 :> 2) /\ pSrcB = (0 :> 3 @@ 1 :> 4)
    /\ pDst = (0 :> -5 @@ 1 :> 10)

-----------------------------------------------------------------------------
(* C5 -- strided subtraction *)

\* C5 as stated: after all workers of the subtraction kernel have finished,
\* pDst[m*strideY + n] equals the difference
\* pSrcA[m*strideA + n] - pSrcB[m*strideB + n] for all 16-bit input values.
C5_ExactDifference ==
    (op = "sub" /\ AllDone) =>
        \A m \in 0 .. a.M - 1, n \in 0 .. a.N - 1 :
            pDst[m * a.strideY + n] =
                pSrcA[m * a.strideA + n] - pSrcB[m * a.strideB + n]

\* C5 amended: pDst[m*strideY + n] is the difference reduced to 16 bits: the
\* difference itself when it lies in [-32768, 32767], the difference - 65536
\* when it is larger and the difference + 65536 when it is smaller.
C5_DifferenceMod16 ==
    (op = "sub" /\ AllDone) =>
        \A m \in 0 .. a.M - 1, n \in 0 .. a.N - 1 :
            LET diff == pSrcA[m * a.strideA + n] - pSrcB[m * a.strideB + n]
                y == pDst[m * a.strideY + n]
            IN  /\ y \in Min16 .. Max16
                /\ diff \in Min16 .. Max16 => y = diff
                /\ diff > Max16 => y = diff - 65536
                /\ diff < Min16 => y = diff + 65536

\* a finished subtraction with a difference above and one below the range
C5_Witness ==
    /\ op = "sub" /\ AllDone
    /\ a.M = 2 /\ a.N = 2 /\ a.strideY = 3
    /\ \E m \in 0 .. 1, n \in 0 .. 1 :
          /\ pSrcA[m * a.strideA + n] - pSrcB[m * a.strideB + n] > Max16
          /\ Len(writers[m * a.strideY + n]) = 1
    /\ \E m \in 0 .. 1, n \in 0 .. 1 :
          /\ pSrcA[m * a.strideA + n] - pSrcB[m * a.strideB + n] < Min16
          /\ Len(writers[m * a.strideY + n]) = 1

-----------------------------------------------------------------------------
(* C6 -- workers beyond the last row *)

\* C6: a worker whose core_id is >= M (there is one when nPE > M) never
\* enters the body of the row loop and stores nothing to the output buffer;
\* its only step is the failing loop test, after which it has returned.
C6_ExcessWorkersIdle ==
    op \in Kernels =>
        \A c \in Cores : c >= a.M =>
            /\ rows[c] = << >>
            /\ \A i \in DOMAIN writers : c \notin SeqSet(writers[i])
            /\ wk[c].pc \in {"row", "done"}
            /\ wk[c].pc = "row" => ENABLED RowStep(c)

\* all of four workers have returned from a matrix of two rows, the output
\* written by the first two only
C6_Witness ==
    /\ op = "sub" /\ AllDone
    /\ a.nPE = 4 /\ a.M = 2 /\ a.N = 1
    /\ writers[0] = <<0>> /\ writers[a.strideY] = <<1>>
    /\ rows[2] = << >> /\ rows[3] = << >>

-----------------------------------------------------------------------------
(* C7, C8 -- dispatch of plp_dot_prod_i32s *)

\* cluster ids of the SIMD-capable cluster of the target
KnownClusters == {0}

Unrecognized(cid) == cid # ARCHI_FC_CID /\ cid \notin KnownClusters

\* C7 as stated: a call from a context that is neither the fabric controller
\* nor a known cluster fails fast, and no kernel is run.
C7_FailFast ==
    \A i \in DOMAIN calls :
        Unrecognized(calls[i].cid) =>
            calls[i].kernel \notin {"rv32im", "xpulpv2"}

\* C7 amended: plp_dot_prod_i32s has no abort path; a call from a context
\* that is neither the fabric controller nor a known cluster is forwarded to
\* plp_dot_prod_i32s_xpulpv2 like any other non-FC context, and that kernel
\* stores the dot product to *pRes.
C7_DefaultsToXpulpv2 ==
    \A i \in DOMAIN calls :
        Unrecognized(calls[i].cid) =>
            /\ calls[i].kernel = "xpulpv2"
            /\ calls[i].pRes =
                  Sum32([k \in 1 .. calls[i].blockSize |->
                            Mul32(GenA(calls[i].dat, 32, k - 1),
                                  GenB(calls[i].dat, 32, k - 1))])

\* a call from cluster id 31 has run the xpulpv2 kernel on two elements
C7_Witness ==
    \E i \in DOMAIN calls :
        /\ calls[i].cid = 31
        /\ calls[i].blockSize = 2 /\ calls[i].dat = 1
        /\ calls[i].kernel = "xpulpv2"
        /\ calls[i].pRes = 11

\* C8: the kernel is rv32im when rt_cluster_id() equals ARCHI_FC_CID and
\* xpulpv2 otherwise, and two calls from the same cluster id select the same
\* kernel whatever pSrcA, pSrcB and blockSize are.
C8_SelectionByClusterOnly ==
    /\ \A i \in DOMAIN calls :
          calls[i].kernel =
              IF calls[i].cid = ARCHI_FC_CID THEN "rv32im" ELSE "xpulpv2"
    /\ \A i, j \in DOMAIN calls :
          calls[i].cid = calls[j].cid => calls[i].kernel = calls[j].kernel

\* two calls from the fabric controller with different vectors and lengths
C8_Witness ==
    /\ Len(calls) = 2
    /\ calls[1].cid = ARCHI_FC_CID /\ calls[2].cid = ARCHI_FC_CID
    /\ calls[1].blockSize = 0 /\ calls[2].blockSize = 2
    /\ calls[1].dat # calls[2].dat
    /\ calls[1].kernel = "rv32im" /\ calls[2].kernel = "rv32im"

-----------------------------------------------------------------------------
(* C9 -- width of the complex accumulators, one inner step *)

\* 16-bit values at the ends of the range and around zero
Edge16 == {Min16, Min16 + 1, -1, 0, 1, Max16}

\* one complex product: M = N = O = 1, one worker, every combination of
\* the edge values for a_re, a_im, b_re, b_im
InitAcc ==
    \E a_re \in Edge16, a_im \in Edge16, b_re \in Edge16, b_im \in Edge16 :
        /\ op = "cmplx"
        /\ a = MultInstance(1, 1, 1, <<0, 0, 0>>, 1)
        /\ pSrcA = (0 :> a_re @@ 1 :> a_im)
        /\ pSrcB = (0 :> b_re @@ 1 :> b_im)
        /\ pDst = [i \in 0 .. 1 |-> PreCall(i)]
        /\ writers = [i \in 0 .. 1 |-> << >>]
        /\ Forked(1)

NextAcc ==
    \/ \E c \in Cores : RowStep(c)
    \/ \E c \in Cores : CmplxColStep(c)
    \/ \E c \in Cores : CmplxImStep(c)

SpecAcc == InitAcc /\ [][NextAcc]_vars

\* an integer x as <<x div 2^16, x mod 2^16>>, and the exact sum of two
\* integers in that form (the sum of two products of 16-bit values can be 2^31)
Wide(x) == << x \div 65536, x % 65536 >>

WideAdd(x, y) ==
    LET l == (x % 65536) + (y % 65536)
    IN  << (x \div 65536) + (y \div 65536) + (l \div 65536), l % 65536 >>

ExactRe == pSrcA[0] * pSrcB[0] - pSrcA[1] * pSrcB[1]

ExactIm == WideAdd(pSrcA[0] * pSrcB[1], pSrcA[1] * pSrcB[0])

AllMin16 ==
    pSrcA[0] = Min16 /\ pSrcA[1] = Min16 /\ pSrcB[0] = Min16 /\ pSrcB[1] = Min16

\* C9 as stated: for all 16-bit a_re, a_im, b_re, b_im and N = 1 the stored
\* values are the exact a_re*b_re - a_im*b_im and a_re*b_im + a_im*b_re.
C9_AlwaysExact ==
    AllDone => (pDst[0] = ExactRe /\ Wide(pDst[1]) = ExactIm)

\* C9 amended: for N = 1 the stored real part is the exact
\* a_re*b_re - a_im*b_im for all 16-bit values, and the stored imaginary part
\* is the exact a_re*b_im + a_im*b_re for all 16-bit values but
\* a_re = a_im = b_re = b_im = -32768, whose exact imaginary part 2^31 is
\* one above the int32_t range.
C9_ExactButAllMin ==
    AllDone =>
        /\ pDst[0] = ExactRe
        /\ ~AllMin16 => Wide(pDst[1]) = ExactIm
        /\ AllMin16 => (ExactIm = <<32768, 0>> /\ Wide(pDst[1]) # ExactIm)

\* the largest real part, 2^31 - 2^15, has been stored exactly
C9_Witness ==
    /\ AllDone
    /\ pSrcA = (0 :> Min16 @@ 1 :> Min16) /\ pSrcB = (0 :> Min16 @@ 1 :> Max16)
    /\ pDst = (0 :> 2147450880 @@ 1 :> 32768)

-----------------------------------------------------------------------------
(* C10 -- interleavings *)

\* C10: with the nPE workers running concurrently and unsynchronized, the
\* output buffer at the join is the same for every interleaving of their
\* steps and equals the buffer left by the workers running one after
\* another, in ascending and in descending order of core id.
C10_InterleavingIndependent ==
    (op \in Kernels /\ AllDone) =>
        /\ pDst = RunInOrder([i \in 1 .. a.nPE |-> i - 1], PreCallDst)
        /\ pDst = RunInOrder([i \in 1 .. a.nPE |-> a.nPE - i], PreCallDst)

\* a join of two workers on a 2 x 2 output, each having stored its own row
C10_Witness ==
    /\ op = "mult" /\ AllDone
    /\ a.nPE = 2 /\ a.M = 2 /\ a.O = 2 /\ a.N = 1
    /\ writers[0] = <<0>> /\ writers[a.strideC + 1] = <<1>>

-----------------------------------------------------------------------------
(* C11 -- output stride and row overlap *)

\* the output stride relative to the logical row length: one short, equal,
\* one element of padding
StrideOffs == {-1, 0, 1}

\* worker counts of the runs that vary the output stride
StrideNPEs == {1, 2, 3}

\* entry of a kernel with an output stride the kernel does not check: it may
\* be smaller than the row length (O for mult and cmplx, N for sub).  The
\* caller's output buffer holds every element the kernel stores to.
InitStride ==
    \E k \in Kernels, M \in 0 .. MaxM, L \in 0 .. MaxO,
       off \in StrideOffs, nPE \in StrideNPEs :
        LET d == IF k = "sub" THEN SubInstance(M, L, <<0, 0, off>>, nPE)
                 ELSE MultInstance(M, 1, L, <<0, 0, off>>, nPE)
            w == IF k = "cmplx" THEN 2 ELSE 1
            bits == IF k = "mult" THEN 32 ELSE 16
            lenB == IF k = "sub" THEN M * d.strideB ELSE L * d.strideB
            lenC == M * (IF off > 0 THEN L + off ELSE L)
        IN
        /\ L + off >= 0
        /\ op = k
        /\ a = d
        /\ pSrcA = [i \in 0 .. w * M * d.strideA - 1 |-> GenA(1, bits, i)]
        /\ pSrcB = [i \in 0 .. w * lenB - 1 |-> GenB(1, bits, i)]
        /\ pDst = [i \in 0 .. w * lenC - 1 |-> PreCall(i)]
        /\ writers = [i \in 0 .. w * lenC - 1 |-> << >>]
        /\ Forked(nPE)

NextStride ==
    \/ \E c \in Cores : RowStep(c)
    \/ \E c \in Cores : MultColStep(c)
    \/ \E c \in Cores : CmplxColStep(c)
    \/ \E c \in Cores : CmplxImStep(c)
    \/ \E c \in Cores : SubColStep(c)

SpecStride == InitStride /\ [][NextStride]_vars

\* the (row, column) positions of the output matrix
Positions == (0 .. a.M - 1) \X (0 .. RowLen - 1)

\* the output buffer indices that hold the element at position p
OutIdx(p) ==
    CASE op = "mult"  -> { IdxC(a, p[1], p[2]) }
      [] op = "cmplx" -> { IdxC(a, p[1], p[2]) * 2 + 0, IdxC(a, p[1], p[2]) * 2 + 1 }
      [] op = "sub"   -> { IdxY(a, p[1], p[2]) }

\* C11: with the output stride at least the row length, distinct (row,
\* column) positions have distinct output indices, no index is stored to
\* twice during the run, and at the join every element has been stored
\* exactly once, by the worker that owns its row.  With the stride below the
\* row length and at least two rows, two positions of different rows share
\* an index, and once two or more workers have run to the join some index
\* has been stored to by two different workers.
C11_WrittenOnce ==
    /\ OutStride >= RowLen =>
          /\ \A p, q \in Positions : p # q => OutIdx(p) \cap OutIdx(q) = {}
          /\ \A i \in DOMAIN writers : Len(writers[i]) <= 1
          /\ AllDone => \A p \in Positions : \A i \in OutIdx(p) :
                            writers[i] = << p[1] % a.nPE >>
    /\ (OutStride < RowLen /\ a.M >= 2) =>
          /\ \E p, q \in Positions : p[1] # q[1] /\ OutIdx(p) \cap OutIdx(q) # {}
          /\ (AllDone /\ a.nPE >= 2) =>
                \E i \in DOMAIN writers : Cardinality(SeqSet(writers[i])) >= 2

\* a join of two workers on a 2 x 2 output with one element of padding per
\* row: the four elements stored once each, two by each worker
C11_Witness ==
    /\ op = "sub" /\ AllDone
    /\ a.M = 2 /\ a.N = 2 /\ a.strideY = 3 /\ a.nPE = 2
    /\ writers = (0 :> <<0>> @@ 1 :> <<0>> @@ 2 :> << >> @@
                  3 :> <<1>> @@ 4 :> <<1>> @@ 5 :> << >>)

\* the overlap happens: with strideC = 1 < O = 2 the element at index 1 has
\* been stored to by worker 0 (row 0, column 1) and by worker 1 (row 1,
\* column 0)
C11_OverlapReached ==
    /\ op = "mult" /\ AllDone
    /\ a.M = 2 /\ a.O = 2 /\ a.strideC = 1 /\ a.nPE = 2
    /\ SeqSet(writers[1]) = {0, 1}

-----------------------------------------------------------------------------
(* C12 -- termination of the workers *)

\* the numbers of cores forked in the runs that check termination, and the
\* cores of the largest team
ForkCounts == {1, 2}
LiveCores == {0, 1}

\* descriptors <<M, nPE, L>> of the runs that check termination, L the
\* length of the rows (N = O = L).  M and nPE are uint32_t fields the kernel
\* reads unchecked: the small values with nPE = 0 included, and the values
\* around 2^31 (Min32 is the bit pattern of 2^31, -1 that of 2^32 - 1), for
\* which m += nPE reaches or passes 2^32.  Rows of the large matrices are
\* empty, so that no buffer is needed.
LiveDescs ==
    ((0 .. MaxM) \X {0, 1, 2} \X {0, 1})
        \cup { <<Min32, Min32, 0>>, <<Min32 + 1, Min32, 0>>, <<-1, Min32, 0>> }

\* entry of a kernel on k cores with a descriptor of LiveDescs; the number
\* of cores forked is the caller's choice and need not equal nPE
InitLive ==
    \E k \in Kernels, desc \in LiveDescs, cores \in ForkCounts :
        LET M == desc[1]
            L == desc[3]
            d == IF k = "sub" THEN SubInstance(M, L, <<0, 0, 0>>, desc[2])
                 ELSE MultInstance(M, L, L, <<0, 0, 0>>, desc[2])
            w == IF k = "cmplx" THEN 2 ELSE 1
            bits == IF k = "mult" THEN 32 ELSE 16
            lenB == IF k = "sub" THEN M * d.strideB ELSE L * d.strideB
        IN
        /\ op = k
        /\ a = d
        /\ pSrcA = [i \in 0 .. w * (M * d.strideA) - 1 |-> GenA(1, bits, i)]
        /\ pSrcB = [i \in 0 .. w * lenB - 1 |-> GenB(1, bits, i)]
        /\ pDst = [i \in 0 .. w * (M * L) - 1 |-> PreCall(i)]
        /\ writers = [i \in 0 .. w * (M * L) - 1 |-> << >>]
        /\ Forked(cores)

\* the next step of the kernel on core c
WorkerStep(c) ==
    /\ c \in Cores
    /\ \/ RowStep(c)
       \/ MultColStep(c)
       \/ CmplxColStep(c)
       \/ CmplxImStep(c)
       \/ SubColStep(c)

NextLive ==
    \/ \E c \in Cores : RowStep(c)
    \/ \E c \in Cores : MultColStep(c)
    \/ \E c \in Cores : CmplxColStep(c)
    \/ \E c \in Cores : CmplxImStep(c)
    \/ \E c \in Cores : SubColStep(c)

\* every worker runs on a core of its own: a worker that can take a step
\* takes it eventually
SpecLive ==
    InitLive /\ [][NextLive]_vars /\ \A c \in LiveCores : WF_vars(WorkerStep(c))

\* M + nPE <= 2^32 as uint32_t values: the addition does not carry, or its
\* result is exactly 2^32
NoWrap(M, nPE) == ~LtU32(Add32(M, nPE), M) \/ Add32(M, nPE) = 0

\* C12 as stated: for every descriptor, nPE = 0 and any M included, all
\* workers eventually finish.
C12_AllTerminate == <>AllDone

\* C12 amended: no worker ever waits (a worker that has not returned can
\* take its next step whatever the others do), and for every descriptor with
\* nPE >= 1 and M + nPE <= 2^32 all workers eventually finish.
C12_TerminateIfAdvancing ==
    /\ [](\A c \in Cores : wk[c].pc # "done" => ENABLED WorkerStep(c))
    /\ (a.nPE # 0 /\ NoWrap(a.M, a.nPE)) => <>AllDone

\* the join of two workers, one row each
C12_Witness ==
    /\ op = "cmplx" /\ AllDone
    /\ a.M = 2 /\ a.nPE = 2 /\ a.O = 1
    /\ rows = (0 :> <<0>> @@ 1 :> <<1>>)

\* a worker back in a row it has already computed: nPE = 0
C12_StuckRow ==
    /\ a.nPE = 0
    /\ \E c \in Cores : Len(rows[c]) >= 2 /\ rows[c][1] = rows[c][2]

\* a worker back in row 0 after the row 2^31: m += nPE has wrapped
C12_WrappedRow ==
    /\ a.nPE = Min32
    /\ \E c \in Cores : Len(rows[c]) >= 3 /\ rows[c][3] = rows[c][1]

-----------------------------------------------------------------------------
(* C13 -- what a worker leaves alone *)

\* the row and the column of the storage that holds output buffer index i:
\* rows are OutStride elements apart, a cmplx element takes two indices
ElemOf(i) == IF op = "cmplx" THEN i \div 2 ELSE i
RowOf(i) == ElemOf(i) \div OutStride
ColOf(i) == ElemOf(i) % OutStride

\* index i holds an element of a row of worker c's row set, at a column
\* inside the logical row length
Owned(c, i) ==
    /\ RowOf(i) < a.M
    /\ RowOf(i) % a.nPE = c
    /\ ColOf(i) < RowLen

\* what a step of a kernel run changes: the two input buffers and the work
\* descriptor stay as they are; an output index that is stored to is stored
\* to by the worker taking the step and is owned by it; every output index
\* no worker has stored to, and every index of the stride padding, holds its
\* pre-call value
FrameStep ==
    /\ pSrcA' = pSrcA /\ pSrcB' = pSrcB /\ a' = a
    /\ DOMAIN pDst' = DOMAIN pDst
    /\ \A i \in DOMAIN pDst :
          (pDst'[i] # pDst[i] \/ writers'[i] # writers[i]) =>
              \E c \in Cores : /\ wk'[c] # wk[c]
                               /\ writers'[i] = Append(writers[i], c)
                               /\ Owned(c, i)
    /\ \A i \in DOMAIN pDst :
          (writers'[i] = << >> \/ ColOf(i) >= RowLen) => pDst'[i] = PreCall(i)

\* C13: a worker stores only to output elements (m, o) with m < M, m
\* congruent to its core_id modulo nPE and o inside the logical row length;
\* every other location keeps its pre-call value in every step of the run:
\* the stride padding of the output, the output rows of the other workers,
\* both input buffers and the work descriptor.
C13_Frame == [][(op \in Kernels) => FrameStep]_vars

\* the join of two cmplx workers on a 2 x 1 output with one complex element
\* of padding per row: each worker has stored the pair of its row, the
\* padding holds the pre-call values
C13_Witness ==
    /\ op = "cmplx" /\ AllDone
    /\ a.M = 2 /\ a.O = 1 /\ a.strideC = 2 /\ a.nPE = 2
    /\ writers = (0 :> <<0>> @@ 1 :> <<0>> @@ 2 :> << >> @@ 3 :> << >> @@
                  4 :> <<1>> @@ 5 :> <<1>> @@ 6 :> << >> @@ 7 :> << >>)
    /\ \A i \in {2, 3, 6, 7} : pDst[i] = PreCall(i)
    /\ \A i \in {0, 1, 4, 5} : pDst[i] # PreCall(i)

-----------------------------------------------------------------------------
(* C1 -- cyclic partition of the rows *)

MaxRows == 4       \* rows M of the runs that check the partition: 0..MaxRows

\* descriptors <<M, nPE>> of the runs that check the partition: every worker
\* count of NPEs with up to MaxRows rows, so that a worker of a team of two
\* or three takes a second row, and the descriptors around 2^31 for which
\* m += nPE reaches or passes 2^32
RowDescs ==
    ((0 .. MaxRows) \X NPEs)
        \cup { <<Min32, Min32>>, <<Min32 + 1, Min32>>, <<-1, Min32>> }

\* entry of a kernel with a descriptor of RowDescs and rows of length L
\* (N = O = L).  A team of nPE workers runs with core ids 0..nPE-1; of the
\* team of 2^31 workers the first two are followed (a worker's rows depend on
\* its core id, M and nPE alone), and its rows are empty, so that no buffer
\* is needed.
InitRows ==
    \E k \in Kernels, desc \in RowDescs, L \in {0, 1} :
        LET M == desc[1]
            nPE == desc[2]
            d == IF k = "sub" THEN SubInstance(M, L, <<0, 0, 0>>, nPE)
                 ELSE MultInstance(M, L, L, <<0, 0, 0>>, nPE)
            w == IF k = "cmplx" THEN 2 ELSE 1
            bits == IF k = "mult" THEN 32 ELSE 16
            lenB == IF k = "sub" THEN M * d.strideB ELSE L * d.strideB
        IN
        /\ nPE \in NPEs \/ L = 0
        /\ op = k
        /\ a = d
        /\ pSrcA = [i \in 0 .. w * (M * d.strideA) - 1 |-> GenA(1, bits, i)]
        /\ pSrcB = [i \in 0 .. w * lenB - 1 |-> GenB(1, bits, i)]
        /\ pDst = [i \in 0 .. w * (M * L) - 1 |-> PreCall(i)]
        /\ writers = [i \in 0 .. w * (M * L) - 1 |-> << >>]
        /\ Forked(IF nPE \in NPEs THEN nPE ELSE 2)

NextRows ==
    \/ \E c \in Cores : RowStep(c)
    \/ \E c \in Cores : MultColStep(c)
    \/ \E c \in Cores : CmplxColStep(c)
    \/ \E c \in Cores : CmplxImStep(c)
    \/ \E c \in Cores : SubColStep(c)

SpecRows == InitRows /\ [][NextRows]_vars

\* the integer core_id + (i - 1) * nPE, nPE read as uint32_t, as
\* <<value div 2^16, value mod 2^16>>; the first component is 2^16 or more
\* when the integer is 2^32 or more
ExactRow(c, i) ==
    LET lo == c + (i - 1) * Lo(a.nPE)
    IN  << (i - 1) * Hi(a.nPE) + (lo \div 65536), lo % 65536 >>

\* C1 as stated: for every nPE >= 1 and every M >= 0 the i-th row worker
\* core_id enters is core_id + (i-1)*nPE, a row below M, and it enters no
\* other; once the nPE workers of core ids 0..nPE-1 have returned, every row
\* of [0, M) has been processed by exactly one worker, exactly once.
C1_CyclicPartition ==
    /\ \A c \in Cores : \A i \in DOMAIN rows[c] :
          /\ << Hi(rows[c][i]), Lo(rows[c][i]) >> = ExactRow(c, i)
          /\ LtU32(rows[c][i], a.M)
    /\ (AllDone /\ a.nPE \in NPEs /\ Cores = 0 .. a.nPE - 1) =>
          /\ \A c \in Cores :
                SeqSet(rows[c]) = {m \in 0 .. a.M - 1 : m % a.nPE = c}
          /\ \A m \in 0 .. a.M - 1 :
                /\ Cardinality({c \in Cores : m \in SeqSet(rows[c])}) = 1
                /\ \A c \in Cores :
                      Cardinality({i \in DOMAIN rows[c] : rows[c][i] = m}) <= 1

\* C1 amended: the same for every nPE >= 1 and every M >= 0 with
\* M + nPE <= 2^32, the descriptors for which m += nPE cannot pass 2^32.
C1_CyclicPartitionNoWrap ==
    (a.nPE # 0 /\ NoWrap(a.M, a.nPE)) => C1_CyclicPartition

\* the join of a team of two on four rows: worker 0 has entered rows 0 and
\* 2, worker 1 rows 1 and 3, and each has stored the element of its rows
C1_Witness ==
    /\ op = "sub" /\ AllDone
    /\ a.M = 4 /\ a.N = 1 /\ a.nPE = 2
    /\ rows = (0 :> <<0, 2>> @@ 1 :> <<1, 3>>)
    /\ writers = (0 :> <<0>> @@ 1 :> <<1>> @@ 2 :> <<0>> @@ 3 :> <<1>>)

\* M = 2^31 + 1, nPE = 2^31: after the rows 0 and 2^31 worker 0 is back in
\* row 0, m += nPE having passed 2^32
C1_RowReentered ==
    /\ a.M = Min32 + 1 /\ a.nPE = Min32
    /\ Len(rows[0]) >= 3
    /\ rows[0][1] = 0 /\ rows[0][2] = Min32 /\ rows[0][3] = 0

====
